---- MODULE Spec2Model ----
(***************************************************************************)
(* The audio graph of dart_vst_graph (graph.cpp) together with the part of *)
(* the VST host layer (dart_vst_host.cpp) that its plug-in nodes call; the *)
(* Dart callback bridge (dart_vst3_bridge.cpp); and the slot list and the  *)
(* plug-in editor windows of the session host UI (MainComponent.cpp).      *)
(* The three have no state in common and are specified apart.              *)
(*                                                                         *)
(* Two actors act on one GraphImpl: a control actor calling the dvh_graph_ *)
(* C API, and a render actor inside GraphImpl::process.  process takes no  *)
(* lock, so its statements interleave with the control actor's calls; it   *)
(* is modelled statement group by statement group (process_begin,          *)
(* process_node, process_vst, process_plugin_return, process_out).  The    *)
(* control calls are single steps: they run under editMtx or are one       *)
(* store.  lastCall and ret hold the control actor's latest call and its   *)
(* result until the caller has taken the result (TakeReturn); out and rret *)
(* hold a finished render call's block until the caller has taken it       *)
(* (TakeBlock).                                                            *)
(*                                                                         *)
(* Handles are the C++ 0-based indices; TLA+ sequences are 1-based, so     *)
(* node h is nodes[h+1].  Samples are integers in units of 10^-6; a stereo *)
(* block is a record of two sequences of Frames samples.                   *)
(***************************************************************************)
EXTENDS Integers, Sequences, FiniteSets, TLC

\* ---------------------------------------------------------------- bounds
MaxNodes == 3
MaxPlugins == 1
MaxQueued == 2
MaxPorts == 2
MaxRaces == 1
MaxConcNodes == 2
MaxApiNodes == 2
Frames == 1

\* ------------------------------------------------------- program constants
\* GainNode::setParam: gdb = v * 60 - 60
GainRangeDb == 60

VARIABLES
  nodes,      \* GraphImpl::nodes: the node objects, by handle
  edges,      \* GraphImpl::edges: edges[d].src, by destination handle
  ioIn,       \* GraphImpl::ioIn
  ioOut,      \* GraphImpl::ioOut
  plugins,    \* every DVH_PluginState allocated so far, by allocation order
  lastCall,   \* the control actor's most recent call and its arguments
  ret,        \* the value that call returned
  rpc,        \* where the render actor is inside GraphImpl::process
  rin,        \* the inL/inR block passed to the current render call
  bufs,       \* process's local std::vector<RuntimeBuffer>
  ri,         \* process's loop index i
  out,        \* the caller's outL/outR block
  rret,       \* the value the last render call returned
  fault,      \* the current render call indexed outside a vector
  races,      \* control calls made since the current render call began
  host,       \* GraphImpl::host: TRUE while its DVH_HostState exists
  \* dart_vst3_bridge.cpp
  instances,  \* every DartVST3Instance ever allocated, by pointer
  threads,    \* each caller thread's current or latest bridge call
  running,    \* the process has not been aborted and has not crashed
  \* MainComponent.cpp
  session,      \* MainComponent::session: the slots of bankA and of bankB
  activeBank,   \* session.activeBank, which activeChain follows
  selectedSlot, \* MainComponent::selectedSlot
  windows,      \* the open PluginEditorWindows
  asyncCalls,   \* the lambdas posted with MessageManager::callAsync
  nextUid,      \* the number of slots made so far, plus one
  oob           \* a slot list has been indexed past its end

vars == <<nodes, edges, ioIn, ioOut, plugins, lastCall, ret,
          rpc, rin, bufs, ri, out, rret, fault, races, host>>

bridgeVars == <<instances, threads, running>>
uiVars == <<session, activeBank, selectedSlot, windows, asyncCalls, nextUid, oob>>

\* the state no call on a graph touches
otherVars == <<bridgeVars, uiVars>>

topology == <<nodes, edges, ioIn, ioOut>>
renderVars == <<rpc, rin, bufs, ri, out, rret, fault>>
callVars == <<lastCall, ret, races>>

\* ------------------------------------------------------------ audio blocks
Blk(l, r) == [L |-> [k \in 1..Frames |-> l * k], R |-> [k \in 1..Frames |-> r * k]]

Zero == Blk(0, 0)

\* what the caller's output buffer holds before the graph has written it
Stale == Blk(-1, -1)

\* what a read through an out-of-range index can return
Garbage == {Zero, Blk(7, 7)}

\* the input blocks the render actor is called with
InBlocks == {Blk(1000000, 500000)}

\* sample * g, g in thousandths; a gain of 1000 or more is a whole number
\* here and is applied as one, which keeps the product inside 32 bits
ScaleSample(x, milli) ==
  IF milli >= 1000 THEN x * (milli \div 1000) ELSE (x * milli) \div 1000

Scale(b, milli) ==
  [L |-> [k \in 1..Frames |-> ScaleSample(b.L[k], milli)],
   R |-> [k \in 1..Frames |-> ScaleSample(b.R[k], milli)]]

Mix(a, b) ==
  [L |-> [k \in 1..Frames |-> a.L[k] + b.L[k]],
   R |-> [k \in 1..Frames |-> a.R[k] + b.R[k]]]

RECURSIVE Pow10(_)
Pow10(k) == IF k <= 0 THEN 1 ELSE 10 * Pow10(k - 1)

\* std::pow(10.0f, gdb * 0.05f), in thousandths; gdb is a multiple of 20 dB
LinGain(gdb) ==
  IF gdb >= 0 THEN 1000 * Pow10(gdb \div 20) ELSE 1000 \div Pow10((0 - gdb) \div 20)

\* ------------------------------------------------------------------ nodes
\* A pointer to a block is <<>> (nullptr) or <<block>>.
SplitNode == [kind |-> "Split", gdb |-> 0, inputs |-> <<>>, gains |-> <<>>, p |-> 0]

GainNode(dB) == [kind |-> "Gain", gdb |-> dB, inputs |-> <<>>, gains |-> <<>>, p |-> 0]

MixerNode(n) ==
  [kind |-> "Mixer", gdb |-> 0,
   inputs |-> [b \in 1..n |-> <<>>], gains |-> [b \in 1..n |-> 1000], p |-> 0]

VstNode(plugin) == [kind |-> "Vst", gdb |-> 0, inputs |-> <<>>, gains |-> <<>>, p |-> plugin]

\* A loaded plug-in: ctl says whether the module gave it an edit controller,
\* events and pchanges count what inputEvents and inputParamChanges hold,
\* locked says whether the render actor holds its mtx inside process(),
\* unloads counts the dvh_unload_plugin calls made on it.
DVH_PluginState(hasCtl) ==
  [loaded |-> TRUE, active |-> FALSE, ctl |-> hasCtl,
   events |-> 0, pchanges |-> 0, locked |-> FALSE, unloads |-> 0]

\* dvh_unload_plugin that deactivates the plug-in and keeps its state
dvh_unload_plugin_leak(ps) == [ps EXCEPT !.active = FALSE]

\* dvh_unload_plugin deletes the state; a render actor inside it stays inside
dvh_unload_plugin(ps) ==
  [loaded |-> FALSE, active |-> FALSE, ctl |-> FALSE,
   events |-> 0, pchanges |-> 0, locked |-> ps.locked, unloads |-> ps.unloads + 1]

SplitNode_process(hasIn, in) == IF hasIn THEN in ELSE Zero

GainNode_process(node, hasIn, in) ==
  IF hasIn THEN Scale(in, LinGain(node.gdb)) ELSE Zero

RECURSIVE MixerSum(_, _)
MixerSum(node, b) ==
  IF b = 0 THEN Zero
  ELSE IF node.inputs[b] = <<>> THEN MixerSum(node, b - 1)
       ELSE Mix(MixerSum(node, b - 1), Scale(node.inputs[b][1], node.gains[b]))

MixerNode_process(node) == MixerSum(node, Len(node.inputs))

\* ------------------------------------------------------- argument domains
Handles == -1..MaxNodes
Ports == 0..(MaxPorts - 1)
MixerSizes == {0, MaxPorts}
GainDbs == {-20}
\* a normalized parameter value v, written as the integer 60 * v
NormVals == {60}
IoIns == {-1, 0}
IoOuts == {-1, 0}

\* a call of the C API with its arguments; old is what the call found in the
\* place it writes: the source the destination entry held (connect,
\* disconnect), the gain in dB (set_param on a Gain node), the number of
\* nodes (clear, destroy); id is what an add call wrote to *out_id, or
\* param_info to *id, -1 when it wrote nothing
Call(op, a, b, c, d) ==
  [op |-> op, a |-> a, b |-> b, c |-> c, d |-> d, old |-> -1, id |-> -1]

NoCall == Call("none", 0, 0, 0, 0)

IsNode(h) == h >= 0 /\ h < Len(nodes)

\* the call returns r to the control actor
Returns(call, r) ==
  /\ lastCall' = call
  /\ ret' = r
  /\ races' = IF rpc = "idle" THEN races ELSE races + 1

\* ------------------------------------------------------ GraphImpl editing
\* addNode that puts the new node first
addNode_front(n) ==
  /\ nodes' = <<n>> \o nodes
  /\ edges' = <<-1>> \o edges

\* nodes.push_back; edges.resize: the new Conn has src = -1
addNode(n) ==
  /\ nodes' = Append(nodes, n)
  /\ edges' = Append(edges, -1)

\* return (int)nodes.size() - 1, after the push_back
addNode_id == Len(nodes') - 1

\* setEdge that leaves an occupied entry alone
setEdge_keepsFirst(s, d) ==
  IF s < 0 \/ d < 0 \/ s >= Len(nodes) \/ d >= Len(nodes)
  THEN [edges |-> edges, ret |-> 0]
  ELSE [edges |-> IF edges[d + 1] >= 0 THEN edges ELSE [edges EXCEPT ![d + 1] = s],
        ret |-> 1]

\* setEdge that tests the destination only
setEdge_unchecked(s, d) ==
  IF d < 0 \/ d >= Len(nodes)
  THEN [edges |-> edges, ret |-> 0]
  ELSE [edges |-> [edges EXCEPT ![d + 1] = s], ret |-> 1]

\* the new edge table and the value returned; Conn::dst is written only
setEdge(s, d) ==
  IF s < 0 \/ d < 0 \/ s >= Len(nodes) \/ d >= Len(nodes)
  THEN [edges |-> edges, ret |-> 0]
  ELSE [edges |-> [edges EXCEPT ![d + 1] = s], ret |-> 1]

\* clearEdge that reports success and leaves the entry
clearEdge_keeps(s, d) ==
  IF d < 0 \/ d >= Len(edges)
  THEN [edges |-> edges, ret |-> 0]
  ELSE [edges |-> edges, ret |-> 1]

clearEdge(s, d) ==
  IF d < 0 \/ d >= Len(edges)
  THEN [edges |-> edges, ret |-> 0]
  ELSE [edges |-> IF edges[d + 1] = s THEN [edges EXCEPT ![d + 1] = -1] ELSE edges,
        ret |-> 1]

\* ------------------------------------------------------------ the C API
\* dvh_graph_clear that leaves the io designation
dvh_graph_clear_keepsIo ==
  /\ nodes' = <<>>
  /\ edges' = <<>>
  /\ plugins' = [q \in 1..Len(plugins) |->
                   IF \E k \in 1..Len(nodes) : nodes[k].kind = "Vst" /\ nodes[k].p = q
                   THEN dvh_unload_plugin(plugins[q]) ELSE plugins[q]]
  /\ lastCall' = [Call("clear", 0, 0, 0, 0) EXCEPT !.old = Len(nodes)]
  /\ ret' = 1
  /\ races' = IF rpc = "idle" THEN races ELSE races + 1
  /\ UNCHANGED <<host, otherVars, ioIn, ioOut, rpc, rin, bufs, ri, out, rret, fault>>

dvh_graph_clear ==
  /\ nodes' = <<>>
  /\ edges' = <<>>
  /\ ioIn' = -1
  /\ ioOut' = -1
  /\ plugins' = [q \in 1..Len(plugins) |->
                   IF \E k \in 1..Len(nodes) : nodes[k].kind = "Vst" /\ nodes[k].p = q
                   THEN dvh_unload_plugin(plugins[q]) ELSE plugins[q]]
  /\ Returns([Call("clear", 0, 0, 0, 0) EXCEPT !.old = Len(nodes)], 1)
  /\ UNCHANGED <<host, otherVars, renderVars>>

\* delete (GraphImpl*)g, first half: ~GraphImpl() { if (host)
\* dvh_destroy_host(host); } runs before any member is destroyed
GraphImpl_dtor ==
  /\ host
  /\ host' = FALSE
  /\ lastCall' = Call("destroy", 0, 0, 0, 0)
  /\ ret' = 0
  /\ UNCHANGED <<otherVars, topology, plugins, races, renderVars>>

\* dvh_graph_destroy that frees the nodes and leaves their plug-ins loaded
dvh_graph_destroy_leaks ==
  /\ lastCall.op = "destroy"
  /\ lastCall.old = -1
  /\ nodes' = <<>>
  /\ edges' = <<>>
  /\ lastCall' = [lastCall EXCEPT !.old = Len(nodes)]
  /\ UNCHANGED <<host, otherVars, ret, ioIn, ioOut, plugins, races, rpc, rin, bufs, ri, out, rret, fault>>

\* delete (GraphImpl*)g, second half: after the destructor's body the members
\* are destroyed, and each VstNode of nodes unloads its plug-in.  The graph
\* is gone afterwards: destroy returns nothing and stays the control actor's
\* last call, old telling how many nodes it freed.
dvh_graph_destroy ==
  /\ lastCall.op = "destroy"
  /\ lastCall.old = -1
  /\ nodes' = <<>>
  /\ edges' = <<>>
  /\ plugins' = [q \in 1..Len(plugins) |->
                   IF \E k \in 1..Len(nodes) : nodes[k].kind = "Vst" /\ nodes[k].p = q
                   THEN dvh_unload_plugin(plugins[q]) ELSE plugins[q]]
  /\ lastCall' = [lastCall EXCEPT !.old = Len(nodes)]
  /\ UNCHANGED <<host, otherVars, ret, ioIn, ioOut, races, renderVars>>

\* dvh_load_plugin fails
dvh_graph_add_vst_loadfail ==
  /\ Returns(Call("add_vst", 0, 0, 0, 0), 0)
  /\ UNCHANGED <<host, otherVars, nodes, edges, ioIn, ioOut, plugins, renderVars>>

\* dvh_load_plugin succeeds, dvh_resume fails, the plug-in is unloaded
dvh_graph_add_vst_resumefail(hasCtl) ==
  /\ Len(plugins) < MaxPlugins
  /\ plugins' = Append(plugins, dvh_unload_plugin(DVH_PluginState(hasCtl)))
  /\ Returns(Call("add_vst", 0, 0, 0, 0), 0)
  /\ UNCHANGED <<host, otherVars, nodes, edges, ioIn, ioOut, renderVars>>

dvh_graph_add_vst(hasCtl) ==
  /\ Len(plugins) < MaxPlugins
  /\ Len(nodes) < MaxNodes
  /\ plugins' = Append(plugins, [DVH_PluginState(hasCtl) EXCEPT !.active = TRUE])
  /\ addNode(VstNode(Len(plugins) + 1))
  /\ Returns([Call("add_vst", 0, 0, 0, 0) EXCEPT !.id = addNode_id], 1)
  /\ UNCHANGED <<host, otherVars, ioIn, ioOut, renderVars>>

dvh_graph_add_mixer(nin) ==
  /\ UNCHANGED <<host, otherVars, ioIn, ioOut, plugins, renderVars>>
  /\ IF nin <= 0
     THEN Returns(Call("add_mixer", nin, 0, 0, 0), 0) /\ UNCHANGED <<nodes, edges>>
     ELSE /\ Len(nodes) < MaxNodes
          /\ addNode(MixerNode(nin))
          /\ Returns([Call("add_mixer", nin, 0, 0, 0) EXCEPT !.id = addNode_id], 1)

dvh_graph_add_split ==
  /\ Len(nodes) < MaxNodes
  /\ addNode(SplitNode)
  /\ Returns([Call("add_split", 0, 0, 0, 0) EXCEPT !.id = addNode_id], 1)
  /\ UNCHANGED <<host, otherVars, ioIn, ioOut, plugins, renderVars>>

dvh_graph_add_gain(db) ==
  /\ Len(nodes) < MaxNodes
  /\ addNode(GainNode(db))
  /\ Returns([Call("add_gain", db, 0, 0, 0) EXCEPT !.id = addNode_id], 1)
  /\ UNCHANGED <<host, otherVars, ioIn, ioOut, plugins, renderVars>>

dvh_graph_connect(s, sb, d, db) ==
  /\ edges' = setEdge(s, d).edges
  /\ Returns([Call("connect", s, sb, d, db) EXCEPT
                !.old = IF IsNode(d) THEN edges[d + 1] ELSE -1],
             setEdge(s, d).ret)
  /\ UNCHANGED <<host, otherVars, nodes, ioIn, ioOut, plugins, renderVars>>

dvh_graph_disconnect(s, sb, d, db) ==
  /\ edges' = clearEdge(s, d).edges
  /\ Returns([Call("disconnect", s, sb, d, db) EXCEPT
                !.old = IF IsNode(d) THEN edges[d + 1] ELSE -1],
             clearEdge(s, d).ret)
  /\ UNCHANGED <<host, otherVars, nodes, ioIn, ioOut, plugins, renderVars>>

dvh_graph_set_io_nodes(in, o) ==
  /\ ioIn' = in
  /\ ioOut' = o
  /\ Returns(Call("set_io_nodes", in, o, 0, 0), 1)
  /\ UNCHANGED <<host, otherVars, nodes, edges, plugins, renderVars>>

\* ------------------------------------------------- notes and parameters
\* EventList::addEvent on inputEvents: refused when the list is full
dvh_note_on(pl, q) ==
  IF pl[q].events < MaxQueued
  THEN [plugins |-> [pl EXCEPT ![q].events = @ + 1], ret |-> 1]
  ELSE [plugins |-> pl, ret |-> 0]

\* Node::noteOn that reports failure for the nodes without note handling
Node_noteOn_refuses(pl, node) ==
  IF node.kind = "Vst" THEN dvh_note_on(pl, node.p) ELSE [plugins |-> pl, ret |-> 0]

\* Node::noteOn (Mixer, Split, Gain) and VstNode::noteOn
Node_noteOn(pl, node) ==
  IF node.kind = "Vst" THEN dvh_note_on(pl, node.p) ELSE [plugins |-> pl, ret |-> 1]

\* a broadcast that reaches the last node only
NoteAll_lastOnly(pl, k) ==
  IF k = 0 THEN pl ELSE [q \in 1..Len(pl) |->
                           IF nodes[k].kind = "Vst" /\ nodes[k].p = q /\ pl[q].events = 0
                           THEN [pl[q] EXCEPT !.events = 1] ELSE pl[q]]

\* for (auto& n : nodes) n->noteOn(...), the first k nodes done
RECURSIVE NoteAll(_, _)
NoteAll(pl, k) ==
  IF k = 0 THEN pl ELSE Node_noteOn(NoteAll(pl, k - 1), nodes[k]).plugins

GraphNote(op, node) ==
  /\ IF IsNode(node)
     THEN /\ plugins' = Node_noteOn(plugins, nodes[node + 1]).plugins
          /\ Returns(Call(op, node, 0, 0, 0), Node_noteOn(plugins, nodes[node + 1]).ret)
     ELSE /\ plugins' = NoteAll(plugins, Len(nodes))
          /\ Returns(Call(op, node, 0, 0, 0), 1)
  /\ UNCHANGED <<host, otherVars, nodes, edges, ioIn, ioOut, renderVars>>

dvh_graph_note_on(node) == GraphNote("note_on", node)

dvh_graph_note_off(node) == GraphNote("note_off", node)

\* ParameterChanges::addParameterData on inputParamChanges, then addPoint
dvh_set_param_normalized(pl, q) ==
  IF ~pl[q].ctl THEN [plugins |-> pl, ret |-> 0]
  ELSE IF pl[q].pchanges < MaxQueued
       THEN [plugins |-> [pl EXCEPT ![q].pchanges = @ + 1], ret |-> 1]
       ELSE [plugins |-> pl, ret |-> 0]

\* GainNode::setParam that stores the value without the -60 dB offset
GainNode_setParam_noOffset(node, v60) == [node EXCEPT !.gdb = v60]

\* gdb.store(v * 60.f - 60.f); v60 is 60 * v
GainNode_setParam(node, v60) == [node EXCEPT !.gdb = v60 - GainRangeDb]

\* dvh_graph_set_param that reports success for every handle
dvh_graph_set_param_unchecked(node, id, v60) ==
  /\ UNCHANGED <<host, otherVars, topology, plugins, renderVars>>
  /\ Returns(Call("set_param", node, id, v60, 0), 1)

dvh_graph_set_param(node, id, v60) ==
  /\ UNCHANGED <<host, otherVars, edges, ioIn, ioOut, renderVars>>
  /\ IF ~IsNode(node)
     THEN Returns(Call("set_param", node, id, v60, 0), 0) /\ UNCHANGED <<nodes, plugins>>
     ELSE LET n == nodes[node + 1] IN
          CASE n.kind = "Gain" ->
                 /\ nodes' = [nodes EXCEPT ![node + 1] = GainNode_setParam(n, v60)]
                 /\ Returns([Call("set_param", node, id, v60, 0) EXCEPT !.old = n.gdb], 1)
                 /\ UNCHANGED plugins
            [] n.kind = "Vst" ->
                 /\ plugins' = dvh_set_param_normalized(plugins, n.p).plugins
                 /\ Returns(Call("set_param", node, id, v60, 0),
                            dvh_set_param_normalized(plugins, n.p).ret)
                 /\ UNCHANGED nodes
            [] OTHER ->
                 /\ Returns(Call("set_param", node, id, v60, 0), 0)
                 /\ UNCHANGED <<nodes, plugins>>

\* GainNode::paramCount, Node::paramCount, dvh_param_count
dvh_graph_param_count(node) ==
  /\ UNCHANGED <<host, otherVars, topology, plugins, renderVars>>
  /\ IF ~IsNode(node) THEN Returns(Call("param_count", node, 0, 0, 0), 0)
     ELSE LET n == nodes[node + 1] IN
          CASE n.kind = "Gain" -> Returns(Call("param_count", node, 0, 0, 0), 1)
            [] n.kind = "Vst" ->
                 \E c \in (IF plugins[n.p].ctl THEN {0, 1} ELSE {0}) :
                    Returns(Call("param_count", node, 0, 0, 0), c)
            [] OTHER -> Returns(Call("param_count", node, 0, 0, 0), 0)

\* GainNode::paramInfo: index 0 only, *id = 0; Node::paramInfo returns 0
dvh_graph_param_info(node, idx) ==
  /\ UNCHANGED <<host, otherVars, topology, plugins, renderVars>>
  /\ IF ~IsNode(node) THEN Returns(Call("param_info", node, idx, 0, 0), 0)
     ELSE LET n == nodes[node + 1] IN
          CASE n.kind = "Gain" ->
                 IF idx # 0 THEN Returns(Call("param_info", node, idx, 0, 0), 0)
                 ELSE Returns([Call("param_info", node, idx, 0, 0) EXCEPT !.id = 0], 1)
            [] n.kind = "Vst" ->
                 \/ Returns(Call("param_info", node, idx, 0, 0), 0)
                 \/ /\ plugins[n.p].ctl
                    /\ Returns([Call("param_info", node, idx, 0, 0) EXCEPT !.id = idx], 1)
            [] OTHER -> Returns(Call("param_info", node, idx, 0, 0), 0)

\* GainNode::getParam that returns the gain in dB
GainNode_getParam_raw(node) == node.gdb

\* (gdb.load() + 60.f) / 60.f, as the integer 60 * v
GainNode_getParam(node) == node.gdb + GainRangeDb

\* the value returned is 60 * v; a plug-in's controller returns what it holds
dvh_graph_get_param(node, id) ==
  /\ UNCHANGED <<host, otherVars, topology, plugins, renderVars>>
  /\ IF ~IsNode(node) THEN Returns(Call("get_param", node, id, 0, 0), 0)
     ELSE LET n == nodes[node + 1] IN
          CASE n.kind = "Gain" ->
                 Returns(Call("get_param", node, id, 0, 0), GainNode_getParam(n))
            [] n.kind = "Vst" ->
                 \E v \in (IF plugins[n.p].ctl THEN {0} \cup NormVals ELSE {0}) :
                    Returns(Call("get_param", node, id, 0, 0), v)
            [] OTHER -> Returns(Call("get_param", node, id, 0, 0), 0)

AddOps == {"add_vst", "add_mixer", "add_split", "add_gain"}

\* the control actor is inside the lock_guard scope of addNode, setEdge,
\* clearEdge or dvh_graph_clear: the call has made its writes and has not
\* yet returned to its caller
EditLocked ==
  \/ lastCall.op \in {"connect", "disconnect", "clear"}
  \/ lastCall.op \in AddOps /\ ret = 1

\* the control actor has taken the result of its call
TakeReturn ==
  /\ lastCall # NoCall
  /\ lastCall.op # "destroy"
  /\ lastCall' = NoCall
  /\ ret' = 0
  /\ UNCHANGED <<host, otherVars, topology, plugins, renderVars, races>>

\* ------------------------------------------------------ GraphImpl::process
\* a RuntimeBuffer whose samples are left as the allocation found them
NewBuffer_dirty == [blk |-> Blk(7, 7), ext |-> FALSE]

NewBuffer == [blk |-> Zero, ext |-> FALSE]

\* what a RuntimeBuffer hands to a reader: inL/inR when set, else L/R
BufferData(b) == IF b.ext THEN rin ELSE b.blk

\* process that starts only once it has editMtx
process_begin_locked(in) ==
  /\ rpc = "idle"
  /\ ~EditLocked
  /\ rin' = in
  /\ ri' = 0
  /\ races' = 0
  /\ bufs' = [k \in 1..Len(nodes) |-> [blk |-> Zero, ext |-> (k = ioIn + 1)]]
  /\ fault' = FALSE
  /\ rpc' = "loop"
  /\ UNCHANGED <<host, otherVars, nodes, edges, ioIn, ioOut, plugins, lastCall, ret, out, rret>>

\* lines 193-203: size and zero the buffers, mark the input node's buffer
process_begin(in) ==
  /\ rpc = "idle"
  /\ rin' = in
  /\ ri' = 0
  /\ races' = 0
  /\ LET fresh == [k \in 1..Len(nodes) |-> NewBuffer] IN
     IF ioIn >= 0 /\ ioIn < Len(nodes)
     THEN bufs' = [fresh EXCEPT ![ioIn + 1].ext = TRUE] /\ fault' = FALSE /\ rpc' = "loop"
     ELSE IF ioIn < 0
     THEN bufs' = fresh /\ fault' = FALSE /\ rpc' = "loop"
     ELSE \* bufs[ioIn] lies outside the vector
          bufs' = fresh /\ fault' = TRUE /\ rpc' \in {"loop", "crashed"}
  /\ UNCHANGED <<host, otherVars, topology, plugins, lastCall, ret, out, rret>>

\* the source pointers of node i: none, the source's buffer, or whatever
\* lies at an index past the end of bufs
SourceOf(src) ==
  IF src < 0 THEN {<<>>}
  ELSE IF src < Len(bufs) THEN {<<BufferData(bufs[src + 1])>>}
  ELSE {<<g>> : g \in Garbage}

\* nodes[i]->process(srcL, srcR, ...) for the built-in nodes
NodeOut(node, inp) ==
  CASE node.kind = "Split" -> SplitNode_process(inp # <<>>, IF inp # <<>> THEN inp[1] ELSE Zero)
    [] node.kind = "Gain" -> GainNode_process(node, inp # <<>>, IF inp # <<>> THEN inp[1] ELSE Zero)
    [] node.kind = "Mixer" -> MixerNode_process(node)

\* node i's source or node i's own buffer lies outside bufs
Outside(i) == edges[i + 1] >= Len(bufs) \/ i >= Len(bufs)

\* lines 206-216: one iteration of the loop, node i a built-in node
process_node ==
  /\ rpc = "loop"
  /\ ri < Len(nodes)
  /\ nodes[ri + 1].kind # "Vst"
  /\ ~Outside(ri)
  /\ bufs' = [bufs EXCEPT ![ri + 1].blk =
                NodeOut(nodes[ri + 1], CHOOSE inp \in SourceOf(edges[ri + 1]) : TRUE)]
  /\ ri' = ri + 1
  /\ UNCHANGED <<host, otherVars, topology, plugins, callVars, rpc, rin, out, rret, fault>>

\* the same iteration when the vectors changed size under the loop: the read
\* returns anything, the write lands outside bufs, or the process dies
process_node_outside ==
  /\ rpc = "loop"
  /\ ri < Len(nodes)
  /\ nodes[ri + 1].kind # "Vst"
  /\ Outside(ri)
  /\ fault' = TRUE
  /\ \/ rpc' = "crashed" /\ UNCHANGED <<bufs, ri>>
     \/ /\ \E inp \in SourceOf(edges[ri + 1]) :
             bufs' = IF ri < Len(bufs)
                     THEN [bufs EXCEPT ![ri + 1].blk = NodeOut(nodes[ri + 1], inp)]
                     ELSE bufs
        /\ ri' = ri + 1
        /\ UNCHANGED rpc
  /\ UNCHANGED <<host, otherVars, topology, plugins, callVars, rin, out, rret>>

\* the iteration for a plug-in node: dvh_process_stereo_f32 returns 0 at once
\* on a null input; otherwise it takes mtx and calls the plug-in, which
\* writes silence or its input to the output block
process_vst ==
  /\ rpc = "loop"
  /\ ri < Len(nodes)
  /\ nodes[ri + 1].kind = "Vst"
  /\ \E inp \in SourceOf(edges[ri + 1]) :
       IF inp = <<>>
       THEN /\ ri' = ri + 1
            /\ UNCHANGED <<rpc, bufs, plugins, fault>>
       ELSE /\ \E o \in {Zero, inp[1]} :
                 bufs' = IF ri < Len(bufs)
                         THEN [bufs EXCEPT ![ri + 1].blk = o]
                         ELSE bufs
            /\ plugins' = [plugins EXCEPT ![nodes[ri + 1].p].locked = TRUE]
            /\ rpc' = "inplug"
            /\ fault' = (fault \/ Outside(ri))
            /\ UNCHANGED ri
  /\ UNCHANGED <<host, otherVars, topology, callVars, rin, out, rret>>

\* dvh_process_stereo_f32 lines 260-266: the plug-in returns, the queues are
\* cleared, mtx is released; GraphImpl::process drops the returned value
process_plugin_return ==
  /\ rpc = "inplug"
  /\ \E q \in 1..Len(plugins) :
       /\ plugins[q].locked
       /\ plugins[q].loaded
       /\ plugins' = [plugins EXCEPT ![q].events = 0, ![q].pchanges = 0,
                                     ![q].locked = FALSE]
  /\ rpc' = "loop"
  /\ ri' = ri + 1
  /\ UNCHANGED <<host, otherVars, topology, callVars, rin, bufs, out, rret, fault>>

\* the same return when clear deleted the plug-in state under the call
process_plugin_return_freed ==
  /\ rpc = "inplug"
  /\ \E q \in 1..Len(plugins) :
       /\ plugins[q].locked
       /\ ~plugins[q].loaded
       /\ plugins' = [plugins EXCEPT ![q].locked = FALSE]
  /\ fault' = TRUE
  /\ \/ rpc' = "crashed" /\ UNCHANGED ri
     \/ rpc' = "loop" /\ ri' = ri + 1
  /\ UNCHANGED <<host, otherVars, topology, callVars, rin, bufs, out, rret>>

\* OutIndex that falls back to the first node
OutIndex_first == IF ioOut < 0 THEN 0 ELSE ioOut

\* the index of the buffer copied to the caller
OutIndex == IF ioOut < 0 THEN Len(nodes) - 1 ELSE ioOut

\* lines 217-222: copy the output node's buffer to the caller, return 1
process_out ==
  /\ rpc = "loop"
  /\ ri >= Len(nodes)
  /\ OutIndex >= 0 /\ OutIndex < Len(bufs)
  /\ out' = BufferData(bufs[OutIndex + 1])
  /\ rret' = 1
  /\ rpc' = "done"
  /\ UNCHANGED <<host, otherVars, topology, plugins, callVars, rin, bufs, ri, fault>>

\* the same lines when bufs[OutIndex] lies outside the vector
process_out_outside ==
  /\ rpc = "loop"
  /\ ri >= Len(nodes)
  /\ ~(OutIndex >= 0 /\ OutIndex < Len(bufs))
  /\ fault' = TRUE
  /\ \/ rpc' = "crashed" /\ UNCHANGED <<out, rret>>
     \/ rpc' = "done" /\ rret' = 1 /\ out' \in Garbage
  /\ UNCHANGED <<host, otherVars, topology, plugins, callVars, rin, bufs, ri>>

\* the caller has taken the block; process's locals are gone
TakeBlock ==
  /\ rpc = "done"
  /\ rpc' = "idle"
  /\ rin' = Zero
  /\ bufs' = <<>>
  /\ ri' = 0
  /\ out' = Stale
  /\ rret' = 0
  /\ fault' = FALSE
  /\ races' = 0
  /\ UNCHANGED <<host, otherVars, topology, plugins, lastCall, ret>>

\* --------------------------------------------------- dart_vst3_bridge.cpp
MaxInstances == 2

\* the caller threads
BridgeThreads == {1, 2}

\* the addresses of the DartVST3Instance objects; 0 is nullptr
Ptrs == 1..MaxInstances

\* the calls that forward to a member of DartVST3Callbacks, by member
BridgeOps ==
  {"initialize", "process_stereo", "set_parameter", "get_parameter",
   "get_parameter_count", "reset", "dispose"}

\* a DartVST3Callbacks struct, as the set of its members that are not null
CallbackSets == {{}, BridgeOps \ {"process_stereo", "reset"}, BridgeOps}

\* what a get_parameter or get_parameter_count callback returns
CallbackRets == {0, 1}

\* a pointer no create_instance has returned yet
NoInstance ==
  [alloc |-> "none", callbacks_registered |-> FALSE, callbacks |-> {}, mutex |-> 0]

\* DartVST3Instance(id): callbacks{0}, callbacks_registered(false); mutex is 0
\* when free, else the thread that holds it
DartVST3Instance ==
  [alloc |-> "live", callbacks_registered |-> FALSE, callbacks |-> {}, mutex |-> 0]

\* g_instances: the registry owns every instance that is alive
g_instances == {p \in Ptrs : instances[p].alloc = "live"}

\* a call that has returned r; invoked tells whether it called a callback
Returned(op, p, r, inv) ==
  [pc |-> "idle", op |-> op, inst |-> p, arg |-> {}, ret |-> r, invoked |-> inv]

NoBridgeCall == Returned("none", 0, 0, FALSE)

CanEnter(t) == running /\ threads[t].pc = "idle"

\* new addresses are handed out in order and never again
dart_vst3_create_instance(t, hasId) ==
  /\ CanEnter(t)
  /\ IF ~hasId
     THEN /\ threads' = [threads EXCEPT ![t] = Returned("create_instance", 0, 0, FALSE)]
          /\ UNCHANGED instances
     ELSE \E p \in Ptrs :
            /\ instances[p].alloc = "none"
            /\ \A q \in Ptrs : q < p => instances[q].alloc # "none"
            /\ instances' = [instances EXCEPT ![p] = DartVST3Instance]
            /\ threads' = [threads EXCEPT ![t] = Returned("create_instance", p, p, FALSE)]
  /\ UNCHANGED <<running, vars, uiVars>>

\* g_instances.erase(it) destroys the unique_ptr and with it the instance and
\* its mutex, under g_instances_mutex only
dart_vst3_destroy_instance(t, p) ==
  /\ CanEnter(t)
  /\ IF p \in g_instances
     THEN /\ instances' = [instances EXCEPT ![p].alloc = "freed"]
          /\ threads' = [threads EXCEPT ![t] = Returned("destroy_instance", p, 1, FALSE)]
     ELSE /\ threads' = [threads EXCEPT ![t] = Returned("destroy_instance", p, 0, FALSE)]
          /\ UNCHANGED instances
  /\ UNCHANGED <<running, vars, uiVars>>

\* a per-instance call up to its std::lock_guard: a null instance returns 0,
\* a held mutex makes the caller wait.  The caller passes an instance that is
\* alive when the call starts.
LockInstance(t, op, p, arg) ==
  /\ CanEnter(t)
  /\ IF p = 0
     THEN /\ threads' = [threads EXCEPT ![t] = Returned(op, 0, 0, FALSE)]
          /\ UNCHANGED instances
     ELSE /\ p \in g_instances
          /\ instances[p].mutex = 0
          /\ instances' = [instances EXCEPT ![p].mutex = t]
          /\ threads' = [threads EXCEPT ![t] =
                           [pc |-> "locked", op |-> op, inst |-> p, arg |-> arg,
                            ret |-> 0, invoked |-> FALSE]]
  /\ UNCHANGED <<running, vars, uiVars>>

\* thread t holds the mutex of a live instance inside a call of op
Locked(t, op) ==
  /\ running
  /\ threads[t].pc = "locked"
  /\ threads[t].op = op
  /\ instances[threads[t].inst].alloc = "live"

\* dart_vst3_register_callbacks with callbacks == nullptr
dart_vst3_register_callbacks_null(t, p) ==
  /\ CanEnter(t)
  /\ p \in g_instances
  /\ threads' = [threads EXCEPT ![t] = Returned("register_callbacks", p, 0, FALSE)]
  /\ UNCHANGED <<instances, running, vars, uiVars>>

dart_vst3_register_callbacks(t) ==
  /\ Locked(t, "register_callbacks")
  /\ instances' = [instances EXCEPT ![threads[t].inst] =
                     [@ EXCEPT !.callbacks = threads[t].arg,
                               !.callbacks_registered = TRUE, !.mutex = 0]]
  /\ threads' = [threads EXCEPT ![t] = Returned("register_callbacks", threads[t].inst, 1, FALSE)]
  /\ UNCHANGED <<running, vars, uiVars>>

\* the instance has no callback to forward op to
NoCallback(i, op) == ~i.callbacks_registered \/ op \notin i.callbacks

\* the body of a forwarding call other than process_stereo, and its return:
\* 0 without the callback, else the callback is called and one of rets returned
Forward(t, op, rets) ==
  /\ Locked(t, op)
  /\ instances' = [instances EXCEPT ![threads[t].inst].mutex = 0]
  /\ IF NoCallback(instances[threads[t].inst], op)
     THEN threads' = [threads EXCEPT ![t] = Returned(op, threads[t].inst, 0, FALSE)]
     ELSE \E r \in rets :
            threads' = [threads EXCEPT ![t] = Returned(op, threads[t].inst, r, TRUE)]
  /\ UNCHANGED <<running, vars, uiVars>>

dart_vst3_initialize(t) == Forward(t, "initialize", {1})

\* without the callback: fprintf, fflush, abort()
dart_vst3_process_stereo(t) ==
  /\ Locked(t, "process_stereo")
  /\ IF NoCallback(instances[threads[t].inst], "process_stereo")
     THEN /\ running' = FALSE
          /\ UNCHANGED <<instances, threads>>
     ELSE /\ instances' = [instances EXCEPT ![threads[t].inst].mutex = 0]
          /\ threads' = [threads EXCEPT ![t] =
                           Returned("process_stereo", threads[t].inst, 1, TRUE)]
          /\ UNCHANGED running
  /\ UNCHANGED <<vars, uiVars>>

dart_vst3_set_parameter(t) == Forward(t, "set_parameter", {1})

dart_vst3_get_parameter(t) == Forward(t, "get_parameter", CallbackRets)

dart_vst3_get_parameter_count(t) == Forward(t, "get_parameter_count", CallbackRets)

dart_vst3_reset(t) == Forward(t, "reset", {1})

dart_vst3_dispose(t) == Forward(t, "dispose", {1})

\* the rest of a call whose instance was freed under it: the reads of
\* callbacks_registered and callbacks and the unlock of the mutex touch freed
\* memory, so the call may crash, return 0, or call whatever it finds
UseAfterFree(t) ==
  /\ running
  /\ threads[t].pc = "locked"
  /\ instances[threads[t].inst].alloc = "freed"
  /\ \/ running' = FALSE /\ UNCHANGED threads
     \/ /\ \E r \in {0, 1}, inv \in BOOLEAN :
             threads' = [threads EXCEPT ![t] = Returned(threads[t].op, threads[t].inst, r, inv)]
        /\ UNCHANGED running
  /\ UNCHANGED <<instances, vars, uiVars>>

BridgeInit ==
  /\ instances = [p \in Ptrs |-> NoInstance]
  /\ threads = [t \in BridgeThreads |-> NoBridgeCall]
  /\ running = TRUE

\* ------------------------------------------------------ MainComponent.cpp
MaxSlots == 2
MaxWindows == 1
MaxAsync == 1
MaxUids == 3

Banks == {"A", "B"}

\* a PluginSlotState: uid tells the slots apart; state is 0 for the state
\* the plug-in had when the slot was made, and u for the state captured
\* from an editor that was opened for the slot with uid u
PluginSlotState(u) == [uid |-> u, state |-> 0]

\* activeChain->slots
ActiveSlots == session[activeBank]

\* juce::jlimit
jlimit(lo, hi, v) == IF v < lo THEN lo ELSE IF v > hi THEN hi ELSE v

\* selectSlot's new selectedSlot, for a chain of n slots
selectSlot(n, index) ==
  IF n = 0 \/ index < 0 THEN -1 ELSE jlimit(0, n - 1, index)

\* juce::Array::remove, 0-based
ArrayRemove(a, i) == [k \in 1..(Len(a) - 1) |-> IF k <= i THEN a[k] ELSE a[k + 1]]

\* juce::Array::move, 0-based: the element at i goes to j, those between shift
ArrayMove(a, i, j) ==
  [k \in 1..Len(a) |->
     IF k = j + 1 THEN a[i + 1]
     ELSE IF i < j /\ k > i /\ k <= j THEN a[k + 1]
     ELSE IF j < i /\ k > j + 1 /\ k <= i + 1 THEN a[k - 1]
     ELSE a[k]]

\* addPluginFromFile, the plug-in found and instantiated
addPluginFromFile ==
  /\ Len(ActiveSlots) < MaxSlots
  /\ nextUid <= MaxUids
  /\ session' = [session EXCEPT ![activeBank] = Append(@, PluginSlotState(nextUid))]
  /\ nextUid' = nextUid + 1
  /\ selectedSlot' = selectSlot(Len(ActiveSlots) + 1, Len(ActiveSlots))
  /\ UNCHANGED <<activeBank, windows, asyncCalls, oob, vars, bridgeVars>>

\* new PluginEditorWindow(desc, inst, [this, row](mb) {...}): the window holds
\* the row and an instance made from the slot at that row
openSelectedEditor ==
  /\ selectedSlot >= 0
  /\ selectedSlot < Len(ActiveSlots)
  /\ Cardinality(windows) < MaxWindows
  /\ windows' = windows \cup {[row |-> selectedSlot, uid |-> ActiveSlots[selectedSlot + 1].uid]}
  /\ UNCHANGED <<session, activeBank, selectedSlot, asyncCalls, nextUid, oob, vars, bridgeVars>>

\* a click on the edit button of slot component index
openSlotEditor(index) ==
  /\ index < Len(ActiveSlots)
  /\ Cardinality(windows) < MaxWindows
  /\ selectedSlot' = index
  /\ windows' = windows \cup {[row |-> index, uid |-> ActiveSlots[index + 1].uid]}
  /\ UNCHANGED <<session, activeBank, asyncCalls, nextUid, oob, vars, bridgeVars>>

\* closeButtonPressed: getStateInformation(mb); saveCb(mb); delete this.
\* saveCb is activeChain->slots.getReference(row).state = mb, with the row
\* of the time the window was opened and the chain of the time it is closed;
\* past the end of the list getReference returns a reference outside it
closeButtonPressed(w) ==
  /\ w \in windows
  /\ windows' = windows \ {w}
  /\ IF w.row < Len(ActiveSlots)
     THEN /\ session' = [session EXCEPT ![activeBank][w.row + 1].state = w.uid]
          /\ UNCHANGED oob
     ELSE /\ oob' = TRUE
          /\ UNCHANGED session
  /\ UNCHANGED <<activeBank, selectedSlot, asyncCalls, nextUid, vars, bridgeVars>>

\* removeSlot and moveSlot post a lambda holding index and delta
callAsync(op, index, delta) ==
  /\ Len(asyncCalls) < MaxAsync
  /\ asyncCalls' = Append(asyncCalls, [op |-> op, index |-> index, delta |-> delta])
  /\ UNCHANGED <<session, activeBank, selectedSlot, windows, nextUid, oob, vars, bridgeVars>>

removeSlot(index) == callAsync("remove", index, 0)

moveSlot(index, delta) == callAsync("move", index, delta)

\* the lambda of removeSlot, run by the message loop
removeSlot_async ==
  /\ asyncCalls # <<>>
  /\ Head(asyncCalls).op = "remove"
  /\ asyncCalls' = Tail(asyncCalls)
  /\ LET index == Head(asyncCalls).index IN
     IF index < 0 \/ index >= Len(ActiveSlots)
     THEN UNCHANGED <<session, selectedSlot>>
     ELSE /\ session' = [session EXCEPT ![activeBank] = ArrayRemove(@, index)]
          /\ selectedSlot' = selectSlot(Len(ActiveSlots) - 1,
                                        jlimit(-1, Len(ActiveSlots) - 2, index))
  /\ UNCHANGED <<activeBank, windows, nextUid, oob, vars, bridgeVars>>

\* the lambda of moveSlot, run by the message loop
moveSlot_async ==
  /\ asyncCalls # <<>>
  /\ Head(asyncCalls).op = "move"
  /\ asyncCalls' = Tail(asyncCalls)
  /\ LET index == Head(asyncCalls).index
         newIndex == jlimit(0, Len(ActiveSlots) - 1, index + Head(asyncCalls).delta)
     IN  IF index < 0 \/ index >= Len(ActiveSlots) \/ newIndex = index
         THEN UNCHANGED <<session, selectedSlot>>
         ELSE /\ session' = [session EXCEPT ![activeBank] = ArrayMove(@, index, newIndex)]
              /\ selectedSlot' = selectSlot(Len(ActiveSlots), newIndex)
  /\ UNCHANGED <<activeBank, windows, nextUid, oob, vars, bridgeVars>>

\* buttonClicked(&bankButton)
bankButton ==
  /\ activeBank' = (IF activeBank = "A" THEN "B" ELSE "A")
  /\ UNCHANGED <<session, selectedSlot, windows, asyncCalls, nextUid, oob, vars, bridgeVars>>

\* loadSession's callback with a file that exists: the file holds n slots
\* for bank A, none for bank B, and names the active bank
loadSession(n, active) ==
  /\ nextUid + n - 1 <= MaxUids
  /\ session' = [A |-> [k \in 1..n |-> PluginSlotState(nextUid + k - 1)], B |-> <<>>]
  /\ nextUid' = nextUid + n
  /\ activeBank' = active
  /\ selectedSlot' = -1
  /\ UNCHANGED <<windows, asyncCalls, oob, vars, bridgeVars>>

UiInit ==
  /\ session = [A |-> <<>>, B |-> <<>>]
  /\ activeBank = "A"
  /\ selectedSlot = -1
  /\ windows = {}
  /\ asyncCalls = <<>>
  /\ nextUid = 1
  /\ oob = FALSE

\* ---------------------------------------------------------- specifications
\* dvh_graph_create; no bridge instance; an empty session
Init ==
  /\ BridgeInit
  /\ UiInit
  /\ nodes = <<>>
  /\ edges = <<>>
  /\ ioIn = -1
  /\ ioOut = -1
  /\ plugins = <<>>
  /\ lastCall = NoCall
  /\ ret = 0
  /\ rpc = "idle"
  /\ rin = Zero
  /\ bufs = <<>>
  /\ ri = 0
  /\ out = Stale
  /\ rret = 0
  /\ fault = FALSE
  /\ races = 0
  /\ host = TRUE

\* Sequential use: the control actor calls only between render calls, on a
\* graph of built-in nodes.
SeqControl ==
  \/ dvh_graph_clear
  \/ \E n \in MixerSizes : dvh_graph_add_mixer(n)
  \/ dvh_graph_add_split
  \/ \E db \in GainDbs : dvh_graph_add_gain(db)
  \/ \E s \in Handles, d \in Handles, db \in Ports : dvh_graph_connect(s, 0, d, db)
  \/ \E s \in Handles, d \in Handles : dvh_graph_disconnect(s, 0, d, 0)
  \/ \E i \in IoIns, o \in IoOuts : dvh_graph_set_io_nodes(i, o)

SeqRender ==
  \/ \E in \in InBlocks : process_begin(in)
  \/ process_node
  \/ process_out
  \/ process_out_outside
  \/ TakeBlock

SeqNext ==
  \/ rpc = "idle" /\ lastCall = NoCall /\ SeqControl
  \/ rpc = "idle" /\ TakeReturn
  \/ SeqRender

SeqSpec == Init /\ [][SeqNext]_vars

\* Concurrent use: the control actor calls at any time, at most MaxRaces
\* times within one render call, on a graph of at most MaxConcNodes nodes
\* of every kind.
ConcHandles == -1..(MaxConcNodes - 1)

ConcAdd ==
  \/ \E c \in BOOLEAN : dvh_graph_add_vst(c)
  \/ \E n \in MixerSizes : dvh_graph_add_mixer(n)
  \/ dvh_graph_add_split
  \/ \E db \in GainDbs : dvh_graph_add_gain(db)

ConcEdit ==
  \/ dvh_graph_clear
  \/ dvh_graph_add_vst_loadfail
  \/ \E c \in BOOLEAN : dvh_graph_add_vst_resumefail(c)
  \/ \E s \in ConcHandles, d \in ConcHandles : dvh_graph_connect(s, 0, d, 0)
  \/ \E s \in ConcHandles, d \in ConcHandles : dvh_graph_disconnect(s, 0, d, 0)
  \/ \E i \in IoIns, o \in IoOuts : dvh_graph_set_io_nodes(i, o)
  \/ \E n \in ConcHandles : dvh_graph_note_on(n)
  \/ \E n \in ConcHandles : dvh_graph_note_off(n)
  \/ \E n \in ConcHandles, v \in NormVals : dvh_graph_set_param(n, 0, v)

ConcRender ==
  \/ \E in \in InBlocks : process_begin(in)
  \/ process_node
  \/ process_node_outside
  \/ process_vst
  \/ process_plugin_return
  \/ process_plugin_return_freed
  \/ process_out
  \/ process_out_outside
  \/ TakeBlock

CanCall == rpc # "crashed" /\ lastCall = NoCall /\ (rpc = "idle" \/ races < MaxRaces)

\* the graph has been destroyed: the handle names nothing any more
Destroyed == lastCall.op = "destroy"

Next ==
  \/ CanCall /\ Len(nodes) < MaxConcNodes /\ ConcAdd
  \/ CanCall /\ ConcEdit
  \/ CanCall /\ rpc = "idle" /\ GraphImpl_dtor
  \/ dvh_graph_destroy
  \/ rpc # "crashed" /\ TakeReturn
  \/ ~Destroyed /\ ConcRender

Spec == Init /\ [][Next]_vars

\* API use on a small graph of built-in nodes: the control actor's calls
\* follow one another (the next call is made when the last one has
\* returned, lastCall keeping the latest), between render calls.  Every
\* connect names destination port 0; the graph can be cleared.
ApiHandles == 0..(MaxApiNodes - 1)
\* the parameter calls are also made with a negative handle
ApiParamHandles == -1..(MaxApiNodes - 1)
ApiGainDbs == {-20, 20}
ApiVals == {0, 20, 40, 60}
ParamIds == {0, 1}

ApiAdd ==
  \/ dvh_graph_add_mixer(MaxPorts)
  \/ dvh_graph_add_split
  \/ \E db \in ApiGainDbs : dvh_graph_add_gain(db)

ApiControl ==
  \/ Len(nodes) < MaxApiNodes /\ ApiAdd
  \/ \E s \in ApiHandles, d \in ApiHandles : dvh_graph_connect(s, 0, d, 0)
  \/ \E s \in ApiHandles, d \in ApiHandles, db \in Ports : dvh_graph_disconnect(s, 0, d, db)
  \/ \E i \in IoIns : dvh_graph_set_io_nodes(i, -1)
  \/ \E n \in ApiParamHandles, id \in ParamIds, v \in ApiVals : dvh_graph_set_param(n, id, v)
  \/ \E n \in ApiParamHandles : dvh_graph_get_param(n, 0)
  \/ \E n \in ApiParamHandles : dvh_graph_param_count(n)
  \/ \E n \in ApiParamHandles, idx \in ParamIds : dvh_graph_param_info(n, idx)
  \/ dvh_graph_clear

ApiRender ==
  \/ Len(nodes) > 0 /\ \E in \in InBlocks : process_begin(in)
  \/ process_node
  \/ process_out
  \/ TakeBlock

ApiNext ==
  \/ rpc = "idle" /\ ApiControl
  \/ ApiRender

ApiSpec == Init /\ [][ApiNext]_vars

\* The bridge: BridgeThreads threads call the C API at any time, each call
\* on an instance that is alive when the call starts.
BridgePtrs == 0..MaxInstances

BridgeNext ==
  \/ \E t \in BridgeThreads, hasId \in BOOLEAN : dart_vst3_create_instance(t, hasId)
  \/ \E t \in BridgeThreads, p \in BridgePtrs : dart_vst3_destroy_instance(t, p)
  \/ \E t \in BridgeThreads, op \in BridgeOps, p \in BridgePtrs : LockInstance(t, op, p, {})
  \/ \E t \in BridgeThreads, p \in Ptrs, cbs \in CallbackSets :
       LockInstance(t, "register_callbacks", p, cbs)
  \/ \E t \in BridgeThreads, p \in Ptrs : dart_vst3_register_callbacks_null(t, p)
  \/ \E t \in BridgeThreads : dart_vst3_register_callbacks(t)
  \/ \E t \in BridgeThreads : dart_vst3_initialize(t)
  \/ \E t \in BridgeThreads : dart_vst3_process_stereo(t)
  \/ \E t \in BridgeThreads : dart_vst3_set_parameter(t)
  \/ \E t \in BridgeThreads : dart_vst3_get_parameter(t)
  \/ \E t \in BridgeThreads : dart_vst3_get_parameter_count(t)
  \/ \E t \in BridgeThreads : dart_vst3_reset(t)
  \/ \E t \in BridgeThreads : dart_vst3_dispose(t)
  \/ \E t \in BridgeThreads : UseAfterFree(t)

BridgeSpec == Init /\ [][BridgeNext]_bridgeVars

\* The session host UI: the handlers run one at a time on the message thread,
\* in any order the user and the message loop produce.
SlotIndices == 0..(MaxSlots - 1)

UiNext ==
  \/ addPluginFromFile
  \/ openSelectedEditor
  \/ \E index \in SlotIndices : openSlotEditor(index)
  \/ \E w \in windows : closeButtonPressed(w)
  \/ \E index \in SlotIndices \cup {-1} : removeSlot(index)
  \/ \E index \in SlotIndices \cup {-1}, delta \in {-1, 1} : moveSlot(index, delta)
  \/ removeSlot_async
  \/ moveSlot_async
  \/ bankButton
  \/ \E n \in 0..1, active \in Banks : loadSession(n, active)

UiSpec == Init /\ [][UiNext]_uiVars

\* ------------------------------------------------------------------ claims
\* the node list as a topology: the kind of every node, by handle
NodeKinds == [k \in 1..Len(nodes) |-> nodes[k].kind]

Topology == <<NodeKinds, edges, ioIn, ioOut>>

InCall == rpc \in {"loop", "inplug"}

\* C1: a render call sees one topology from its start to its end: while
\* the call is in progress the node list, the connection table and the io
\* designation do not change.
C1_RenderSeesOneTopology == [][InCall => Topology' = Topology]_vars

\* C2: while the render actor is inside a plug-in's block-processing call
\* (it holds that plug-in's mtx), nobody else touches the plug-in's event
\* list or parameter-change queue.
C2_PluginCallsSerialized ==
  [][\A q \in 1..Len(plugins) :
       (plugins[q].locked /\ plugins'[q].locked)
         => /\ plugins'[q].events = plugins[q].events
            /\ plugins'[q].pchanges = plugins[q].pchanges]_vars

\* C3: a setParameter issued while a render call is in progress does not
\* affect that call: a Gain node rendered in the call carries its source
\* scaled by the gain in effect when the call started (the gain the racing
\* set_param found).
C3_ParamFixedForBlock ==
  LET g == lastCall.a IN
  ( /\ rpc \in {"loop", "inplug", "done"}
    /\ races = 1
    /\ lastCall.op = "set_param"
    /\ ret = 1
    /\ IsNode(g)
    /\ nodes[g + 1].kind = "Gain"
    /\ g < ri
    /\ edges[g + 1] < g
    /\ ~fault )
  => bufs[g + 1].blk =
       NodeOut([nodes[g + 1] EXCEPT !.gdb = lastCall.old],
               IF edges[g + 1] < 0 THEN <<>>
               ELSE <<BufferData(bufs[edges[g + 1] + 1])>>)

\* C4: the node the loop is about to render reads only from a node that
\* the pass has already rendered.
C4_SourceRenderedFirst ==
  (rpc = "loop" /\ ri < Len(nodes) /\ edges[ri + 1] >= 0) => edges[ri + 1] < ri

\* C5: a connect whose source handle is not smaller than its destination
\* handle returns 0 and leaves the destination's entry as it was.
C5_LaterSourceRejected ==
  (lastCall.op = "connect" /\ lastCall.a >= lastCall.c)
  => /\ ret = 0
     /\ IsNode(lastCall.c) => edges[lastCall.c + 1] = lastCall.old

\* the input ports a node declares: N for a Mixer built with N inputs, else 1
InputPorts(node) == IF node.kind = "Mixer" THEN Len(node.inputs) ELSE 1

\* C6: connect returns 0 and leaves the table unchanged when a handle names
\* no live node or the destination port is outside the destination's
\* declared port count, and returns 1 in every other case.
C6_ConnectValidation ==
  lastCall.op = "connect"
  => LET valid == /\ IsNode(lastCall.a)
                  /\ IsNode(lastCall.c)
                  /\ lastCall.d < InputPorts(nodes[lastCall.c + 1])
     IN IF valid THEN ret = 1
        ELSE /\ ret = 0
             /\ IsNode(lastCall.c) => edges[lastCall.c + 1] = lastCall.old

\* the sources the connection table holds for destination d
SourcesOf(d) == {edges[d + 1]} \ {-1}

\* C7: a Mixer m with two or more ports whose entry holds a, after
\* connect(b, 0, m, 1) with b # a, holds both a and b, and the next render
\* makes m's block the sum of a's block and b's block.  (connect drops its
\* port arguments, so the state in which m's entry holds a is the state
\* connect(a, 0, m, 0) leaves.)
C7_MixerFanIn ==
  LET a == lastCall.old
      b == lastCall.a
      m == lastCall.c
  IN ( /\ lastCall.op = "connect"
       /\ lastCall.d = 1
       /\ ret = 1
       /\ nodes[m + 1].kind = "Mixer"
       /\ Len(nodes[m + 1].inputs) >= 2
       /\ a >= 0
       /\ a # b
       /\ a < m /\ b < m )
     => /\ {a, b} \subseteq SourcesOf(m)
        /\ (rpc = "done" /\ ~fault)
             => bufs[m + 1].blk = Mix(BufferData(bufs[a + 1]), BufferData(bufs[b + 1]))

\* C8: after a render pass a Mixer with one source wired, rendered after
\* that source, carries the source's block unchanged (unit port gain).  A
\* source that is the designated input node is taken into account only
\* when it is a Split, whose block is the injected input in any reading.
C8_MixerPassesSingleSource ==
  (rpc = "done" /\ ~fault)
  => \A m \in 0..(Len(nodes) - 1) :
       ( /\ nodes[m + 1].kind = "Mixer"
         /\ edges[m + 1] >= 0
         /\ edges[m + 1] < m
         /\ bufs[edges[m + 1] + 1].ext => nodes[edges[m + 1] + 1].kind = "Split" )
       => bufs[m + 1].blk = BufferData(bufs[edges[m + 1] + 1])

\* C9: after a successful connect(b, 0, d, p) the destination's entry holds
\* b and no other source, whatever it held before; a Split or Gain d
\* rendered after b then carries b's block (scaled by d's gain), with no
\* contribution of the source the entry held before.
C9_PortHoldsOneSource ==
  LET b == lastCall.a
      d == lastCall.c
  IN (lastCall.op = "connect" /\ ret = 1)
     => /\ SourcesOf(d) = {b}
        /\ (rpc = "done" /\ ~fault /\ nodes[d + 1].kind \in {"Split", "Gain"} /\ b < d)
             => bufs[d + 1].blk =
                  IF nodes[d + 1].kind = "Split" THEN BufferData(bufs[b + 1])
                  ELSE Scale(BufferData(bufs[b + 1]), LinGain(nodes[d + 1].gdb))

\* C9's case: d's entry held a, connect(b, 0, d, p) with b # a was made, a
\* and b carry different blocks, and a render pass has then run.
C9_Witness ==
  LET a == lastCall.old
      b == lastCall.a
      d == lastCall.c
  IN /\ lastCall.op = "connect"
     /\ ret = 1
     /\ a >= 0 /\ a # b /\ a < d /\ b < d
     /\ rpc = "done"
     /\ ~fault
     /\ nodes[d + 1].kind = "Split"
     /\ BufferData(bufs[a + 1]) # BufferData(bufs[b + 1])
     /\ bufs[d + 1].blk = BufferData(bufs[b + 1])
     /\ bufs[d + 1].blk # Zero

\* C10: a render call on a graph with no nodes and no io designation
\* returns 1 with every output sample zero and indexes no buffer.
C10_EmptyGraphSilence ==
  (rpc \in {"done", "crashed"} /\ Len(nodes) = 0 /\ ioIn = -1 /\ ioOut = -1)
  => (rpc = "done" /\ rret = 1 /\ out = Zero /\ ~fault)

\* C11: the designated input node and the designated output node are each
\* none (-1) or the handle of a live node.
C11_IoNamesLiveNodes ==
  /\ (ioIn = -1 \/ IsNode(ioIn))
  /\ (ioOut = -1 \/ IsNode(ioOut))

\* node k's render returns failure in a call that saw this topology from
\* start to end: a plug-in node handed no source
RenderFails(k) == nodes[k + 1].kind = "Vst" /\ edges[k + 1] < 0

\* C12: a render call in which some node's render returned failure, with
\* no control call made during it, reports failure and writes zeros.
C12_FailureSilencesBlock ==
  ( /\ rpc = "done"
    /\ races = 0
    /\ ~fault
    /\ \E k \in 0..(Len(nodes) - 1) : RenderFails(k) )
  => (rret = 0 /\ out = Zero)

\* C13: a Split wired from the designated input node, itself a Split or a
\* Gain, carries what that node renders from the injected input: the input
\* scaled by its gain for a Gain.
C13_InputNodeRendersInput ==
  (rpc = "done" /\ ~fault /\ IsNode(ioIn))
  => \A d \in 0..(Len(nodes) - 1) :
       ( /\ nodes[d + 1].kind = "Split"
         /\ edges[d + 1] = ioIn
         /\ ioIn < d
         /\ nodes[ioIn + 1].kind \in {"Split", "Gain"} )
       => bufs[d + 1].blk = NodeOut(nodes[ioIn + 1], <<rin>>)

\* C14: after a render pass on a non-empty graph that indexed no buffer
\* outside the vector, the caller's block is the injected input when the
\* node chosen as output is the designated input node, and otherwise that
\* node's block; the node chosen is the designated output node, or the
\* most recently created node when the designation is -1.
C14_OutputIsChosenNode ==
  LET o == IF ioOut = -1 THEN Len(nodes) - 1 ELSE ioOut
  IN (rpc = "done" /\ ~fault /\ Len(nodes) > 0)
     => /\ rret = 1
        /\ out = IF o = ioIn THEN rin ELSE bufs[o + 1].blk

\* C14's case: a designated output node that is not the last node, whose
\* block differs from the last node's.
C14_Witness ==
  /\ rpc = "done"
  /\ ~fault
  /\ Len(nodes) >= 2
  /\ ioOut = 0
  /\ ioIn = 0
  /\ out = rin
  /\ out # bufs[Len(nodes)].blk
  /\ out # Zero

\* the step is a call of one of these operations by the control actor
Called(ops) == lastCall' # lastCall /\ lastCall'.op \in ops

NoteOps == {"note_on", "note_off"}

C16_HandlesCountUp ==
  [][ Called(AddOps)
      => IF ret' = 1
         THEN /\ lastCall'.id = Len(nodes)
              /\ Len(nodes') = Len(nodes) + 1
              /\ Len(edges') = Len(nodes')
              /\ \A k \in 1..Len(nodes) : nodes'[k] = nodes[k] /\ edges'[k] = edges[k]
              /\ \A k \in 1..Len(nodes) : k - 1 < lastCall'.id
         ELSE /\ nodes' = nodes
              /\ edges' = edges
              /\ lastCall'.id = -1 ]_vars

\* C16's case: a second node of another kind has been added and got
\* handle 1.
C16_Witness ==
  /\ lastCall.op \in AddOps
  /\ ret = 1
  /\ lastCall.id = 1
  /\ Len(nodes) = 2
  /\ nodes[1].kind # nodes[2].kind

\* plug-in q belongs to a live plug-in node
OwnedByNode(q) == \E k \in 1..Len(nodes) : nodes[k].kind = "Vst" /\ nodes[k].p = q

C18_TargetedNoteReachesOne ==
  [][ (Called(NoteOps) /\ lastCall'.a # -1)
      => \A q \in 1..Len(plugins) :
           plugins'[q] # plugins[q]
           => /\ IsNode(lastCall'.a)
              /\ nodes[lastCall'.a + 1].kind = "Vst"
              /\ nodes[lastCall'.a + 1].p = q ]_vars

\* C19: when a render call made with no control call during it has
\* returned, the event list and the parameter-change queue of every live
\* plug-in node are empty.
C19_QueuesDrainedByRender ==
  (rpc = "done" /\ races = 0 /\ ~fault)
  => \A q \in 1..Len(plugins) :
       OwnedByNode(q) => (plugins[q].events = 0 /\ plugins[q].pchanges = 0)

\* C20: a failed add_vst leaves the node list, the connection table and
\* the io designation as they were and writes no handle; a plug-in it had
\* loaded is unloaded, the plug-ins that existed are untouched; and every
\* plug-in node's plug-in is loaded and active.
C20_FailedAddLeavesNothing ==
  [][ /\ (Called({"add_vst"}) /\ ret' = 0)
         => /\ nodes' = nodes
            /\ edges' = edges
            /\ ioIn' = ioIn
            /\ ioOut' = ioOut
            /\ lastCall'.id = -1
            /\ \A q \in 1..Len(plugins') :
                 IF q <= Len(plugins) THEN plugins'[q] = plugins[q]
                 ELSE ~plugins'[q].loaded /\ ~plugins'[q].active
      /\ \A k \in 1..Len(nodes') :
           nodes'[k].kind = "Vst"
           => plugins'[nodes'[k].p].loaded /\ plugins'[nodes'[k].p].active ]_vars

\* C20's case: add_vst failed after the plug-in had been loaded, on a graph
\* that has a node.
C20_Witness ==
  /\ lastCall.op = "add_vst"
  /\ ret = 0
  /\ lastCall.id = -1
  /\ Len(nodes) >= 1
  /\ Len(plugins) = 1
  /\ ~plugins[1].loaded

\* C21: every plug-in node's plug-in is loaded while the node is in the
\* node list; a plug-in that is loaded belongs to a node of the list, so
\* that none outlives the clear or destroy that removes its node; and no
\* plug-in is unloaded more than once.
C21_PluginUnloadedOnce ==
  /\ \A k \in 1..Len(nodes) :
       nodes[k].kind = "Vst" => (plugins[nodes[k].p].loaded /\ plugins[nodes[k].p].unloads = 0)
  /\ \A q \in 1..Len(plugins) :
       /\ plugins[q].loaded => OwnedByNode(q)
       /\ plugins[q].unloads <= 1
       /\ ~plugins[q].loaded => plugins[q].unloads = 1

\* C21's case: a graph holding a plug-in node has been destroyed.
C21_Witness ==
  /\ Destroyed
  /\ lastCall.old >= 1
  /\ Len(plugins) = 1
  /\ ~plugins[1].loaded
  /\ plugins[1].unloads = 1
  /\ Len(nodes) = 0

\* C22: GraphImpl::process takes no lock: in every state in which the
\* control actor is inside an editing call's lock scope, the render actor
\* can take its next step, whether that starts a render call, renders a
\* node or finishes the call.
C22_RenderTakesNoEditLock ==
  (EditLocked /\ rpc # "crashed") => ENABLED ConcRender

\* C22's case: a render call started and ran to completion with the
\* control actor inside the same editing call all the time.
C22_Witness ==
  /\ EditLocked
  /\ rpc = "done"
  /\ races = 0
  /\ Len(nodes) = MaxConcNodes
  /\ rret = 1

\* C23: a render call allocates nothing: the step that starts it finds the
\* per-node buffers already there and leaves their number as it is.
C23_RenderAllocatesNothing ==
  [][(rpc = "idle" /\ rpc' # "idle") => Len(bufs') = Len(bufs)]_vars

\* C25: a successful disconnect(a, 0, b, 0) of the source b's entry held
\* leaves the entry empty; a Split or Gain whose entry is empty and that is
\* not the designated input node renders zeros, and hands zeros to its
\* readers, in every render pass.
C25_DisconnectedRendersSilence ==
  /\ ( /\ lastCall.op = "disconnect"
       /\ ret = 1
       /\ IsNode(lastCall.c)
       /\ lastCall.old >= 0
       /\ lastCall.old = lastCall.a )
     => edges[lastCall.c + 1] = -1
  /\ (rpc = "done" /\ ~fault)
     => \A b \in 0..(Len(nodes) - 1) :
          ( /\ nodes[b + 1].kind \in {"Split", "Gain"}
            /\ edges[b + 1] = -1
            /\ b # ioIn )
          => (bufs[b + 1].blk = Zero /\ BufferData(bufs[b + 1]) = Zero)

\* C25's case: b was fed from the input node a, which carries a non-zero
\* block; disconnect(a, 0, b, 0) was made and a render pass has run.
C25_Witness ==
  /\ lastCall.op = "disconnect"
  /\ ret = 1
  /\ lastCall.old = lastCall.a
  /\ lastCall.a = ioIn
  /\ IsNode(lastCall.a)
  /\ IsNode(lastCall.c)
  /\ lastCall.c # ioIn
  /\ nodes[lastCall.c + 1].kind = "Gain"
  /\ rpc = "done"
  /\ ~fault
  /\ rin # Zero
  /\ bufs[lastCall.c + 1].blk = Zero

\* the block node k's process writes in a pass over the present topology
\* with input rin, computed from the topology alone: a source that is the
\* input node gives rin, an earlier source its own block, a later one (or k
\* itself) the zeros its buffer was filled with
RECURSIVE Rendered(_)
Rendered(k) ==
  LET src == edges[k + 1]
  IN NodeOut(nodes[k + 1],
             IF src < 0 THEN <<>>
             ELSE IF src = ioIn THEN <<rin>>
             ELSE IF src < k THEN <<Rendered(src)>>
             ELSE <<Zero>>)

\* C30: on a graph of built-in nodes the block a render pass returns, and
\* every node's block, is a function of the topology, the gains and the
\* input of that call: nothing of an earlier call enters it.
C30_RenderIsFunctionOfInput ==
  (rpc = "done" /\ ~fault /\ Len(nodes) > 0)
  => /\ \A k \in 0..(Len(nodes) - 1) : bufs[k + 1].blk = Rendered(k)
     /\ LET o == IF ioOut < 0 THEN Len(nodes) - 1 ELSE ioOut
        IN out = IF o = ioIn THEN rin ELSE Rendered(o)

\* C30's case: a pass through a Gain fed from the input node, whose block
\* is neither silence nor the input.
C30_Witness ==
  /\ rpc = "done"
  /\ ~fault
  /\ Len(nodes) = MaxNodes
  /\ out # Zero
  /\ out # rin
  /\ \E k \in 1..Len(nodes) : nodes[k].kind = "Gain" /\ bufs[k].blk = out

\* the step is a call of op made between render calls (the calls of ApiSpec)
ApiCall(op) == rpc = "idle" /\ rpc' = "idle" /\ lastCall'.op = op

\* C24: a disconnect(s, 0, d, p) on a port that does not carry s (d's entry
\* holds another source or none, or s is an earlier node and p another
\* declared port of d than port 0, the only port a connect of ApiSpec
\* names) returns 1 and leaves
\* the connection table unchanged; so does a disconnect that repeats the
\* successful one before it.
C24_DisconnectIdempotent ==
  [][ LET s == lastCall'.a
          d == lastCall'.c
          p == lastCall'.d
      IN (ApiCall("disconnect") /\ IsNode(d))
         => /\ (edges[d + 1] # s \/ (p # 0 /\ p < InputPorts(nodes[d + 1]) /\ s < d))
                 => (edges' = edges /\ ret' = 1)
            /\ ( /\ lastCall.op = "disconnect"
                 /\ ret = 1
                 /\ lastCall.a = s /\ lastCall.c = d /\ lastCall.d = p )
                 => (edges' = edges /\ ret' = 1) ]_vars

\* C26: on a Gain node a get_param made right after a successful
\* set_param(id, v) on the same node returns v.
C26_GetParamInvertsSetParam ==
  [][ ( /\ lastCall.op = "set_param"
        /\ ret = 1
        /\ IsNode(lastCall.a)
        /\ nodes[lastCall.a + 1].kind = "Gain"
        /\ ApiCall("get_param")
        /\ lastCall'.a = lastCall.a )
      => ret' = lastCall.c ]_vars

\* C26's case: get_param returned v = 1/3 on a Gain node, whose gain of
\* -40 dB only set_param(1/3) produces.
C26_Witness ==
  /\ lastCall.op = "get_param"
  /\ IsNode(lastCall.a)
  /\ nodes[lastCall.a + 1].kind = "Gain"
  /\ nodes[lastCall.a + 1].gdb = -40
  /\ ret = 20

\* 10^(dB/20) in thousandths, for the gains the calls of ApiSpec produce
MilliOfDb(db) ==
  CASE db = -60 -> 1
    [] db = -40 -> 10
    [] db = -20 -> 100
    [] db = 0 -> 1000
    [] db = 20 -> 10000

\* C27: a successful set_param(v) leaves a Gain node at 60v - 60 dB, a
\* successful add_gain(db) creates it at db, and a render pass makes the
\* block of every Gain node that has an earlier source that source's block
\* times 10^(dB/20), on both channels.
C27_GainAppliesDb ==
  /\ ( /\ lastCall.op = "set_param"
       /\ ret = 1
       /\ IsNode(lastCall.a)
       /\ nodes[lastCall.a + 1].kind = "Gain" )
     => nodes[lastCall.a + 1].gdb = lastCall.c - 60
  /\ (lastCall.op = "add_gain" /\ ret = 1)
     => nodes[lastCall.id + 1].gdb = lastCall.a
  /\ (rpc = "done" /\ ~fault)
     => \A g \in 0..(Len(nodes) - 1) :
          (nodes[g + 1].kind = "Gain" /\ edges[g + 1] >= 0 /\ edges[g + 1] < g)
          => bufs[g + 1].blk = Scale(BufferData(bufs[edges[g + 1] + 1]),
                                     MilliOfDb(nodes[g + 1].gdb))

\* C27's case: set_param(1/3) on a Gain fed from the input node, then a
\* render pass: the Gain's block is the input at -40 dB.
C27_Witness ==
  /\ lastCall.op = "set_param"
  /\ lastCall.c = 20
  /\ ret = 1
  /\ rpc = "done"
  /\ ~fault
  /\ lastCall.a = 1
  /\ Len(nodes) = 2
  /\ nodes[2].kind = "Gain"
  /\ edges[2] = 0
  /\ ioIn = 0
  /\ rin = Blk(1000000, 500000)
  /\ bufs[2].blk = Blk(10000, 5000)

\* C28: get_param on a Gain node returns a value inside [0, 1]: the value
\* every Gain node would return, and the one a get_param call returned.
C28_GainParamNormalized ==
  /\ \A k \in 1..Len(nodes) :
       nodes[k].kind = "Gain"
       => (GainNode_getParam(nodes[k]) >= 0 /\ GainNode_getParam(nodes[k]) <= 60)
  /\ ( /\ lastCall.op = "get_param"
       /\ IsNode(lastCall.a)
       /\ nodes[lastCall.a + 1].kind = "Gain" )
     => (ret >= 0 /\ ret <= 60)

\* C29: on a Gain node param_count returns 1, param_info succeeds for
\* index 0 only and reports id 0, and set_param with an id other than 0
\* returns 0 and leaves the gain as it was; on a Split or Mixer
\* param_count returns 0 and param_info and set_param return 0.
C29_GainHasOneParameter ==
  IsNode(lastCall.a)
  => LET n == nodes[lastCall.a + 1]
         gain == n.kind = "Gain"
     IN /\ lastCall.op = "param_count" => ret = (IF gain THEN 1 ELSE 0)
        /\ lastCall.op = "param_info"
             => IF gain /\ lastCall.b = 0 THEN (ret = 1 /\ lastCall.id = 0)
                ELSE (ret = 0 /\ lastCall.id = -1)
        /\ lastCall.op = "set_param"
             => IF gain /\ lastCall.b = 0 THEN ret = 1
                ELSE /\ ret = 0
                     /\ gain => n.gdb = lastCall.old

\* C31: a note_on or note_off addressed to a Mixer, Split or Gain node
\* returns 1 and leaves the nodes and their parameters, the connection
\* table, the io designation, the plug-ins and the render call in progress
\* as they were, so that every later render is what it would have been.
C31_NoteOnBuiltinChangesNothing ==
  [][ (Called(NoteOps) /\ IsNode(lastCall'.a) /\ nodes[lastCall'.a + 1].kind # "Vst")
        => /\ ret' = 1
           /\ UNCHANGED <<topology, plugins, host, renderVars>> ]_vars

\* C31's case: a note was addressed to a built-in node of a graph that also
\* holds a plug-in node, during a render call that has finished since; the
\* plug-in's event list is empty.
C31_Witness ==
  /\ lastCall.op \in NoteOps
  /\ IsNode(lastCall.a)
  /\ nodes[lastCall.a + 1].kind \in {"Mixer", "Split", "Gain"}
  /\ ret = 1
  /\ \E k \in 1..Len(nodes) : nodes[k].kind = "Vst" /\ plugins[nodes[k].p].events = 0
  /\ rpc = "done"
  /\ races = 1

ParamOps == {"param_count", "param_info", "get_param", "set_param"}

\* C32: param_count, param_info, get_param and set_param with a handle that
\* names no node (negative, or not below the node count, so every handle
\* after a clear) return 0, write no parameter id, and leave every node, the
\* connection table, the io designation and the plug-ins as they were.
C32_ParamCallsRejectDeadHandle ==
  [][ (rpc = "idle" /\ rpc' = "idle" /\ lastCall'.op \in ParamOps /\ ~IsNode(lastCall'.a))
        => /\ ret' = 0
           /\ lastCall'.id = -1
           /\ UNCHANGED <<topology, plugins>> ]_vars

\* C32's case: set_param was called with handle 1 on a graph whose only node
\* is a Gain node.
C32_Witness ==
  /\ lastCall.op = "set_param"
  /\ lastCall.a = 1
  /\ Len(nodes) = 1
  /\ nodes[1].kind = "Gain"
  /\ ret = 0

\* C33: the graph's host is destroyed only when no plug-in loaded through
\* it is still loaded.
C33_PluginsUnloadedBeforeHost ==
  ~host => \A q \in 1..Len(plugins) : ~plugins[q].loaded

\* C34: after every control call the connection table has one entry per
\* node and every entry is -1 or the handle of a node; a connect or
\* disconnect that returns 0 leaves the table as it was.
C34_EdgeTableWellFormed ==
  [][ /\ Len(edges') = Len(nodes')
      /\ \A k \in 1..Len(edges') :
           edges'[k] = -1 \/ (edges'[k] >= 0 /\ edges'[k] < Len(nodes'))
      /\ (Called({"connect", "disconnect"}) /\ ret' = 0) => edges' = edges ]_vars

\* C34's case: a connect failed on a full graph that holds a connection.
C34_Witness ==
  /\ lastCall.op = "connect"
  /\ ret = 0
  /\ Len(nodes) = MaxNodes
  /\ \E k \in 1..Len(edges) : edges[k] >= 0

\* C35: closing an editor window never indexes past the end of the active
\* chain's slots and writes the captured state to no slot but the one the
\* window was opened for (every slot's state is the one it was made with or
\* one captured from its own editor); when that slot is still at the
\* window's row of the active chain, it receives the captured state.
C35_EditorStateGoesToItsSlot ==
  [][ /\ ~oob'
      /\ \A b \in Banks : \A k \in 1..Len(session'[b]) :
           session'[b][k].state \in {0, session'[b][k].uid}
      /\ \A w \in windows :
           (/\ windows' = windows \ {w}
            /\ w.row < Len(ActiveSlots)
            /\ ActiveSlots[w.row + 1].uid = w.uid)
           => session'[activeBank][w.row + 1].state = w.uid ]_uiVars

\* thread t takes the step: its call record changes, or it is the only
\* thread inside a call when the process stops
BridgeStep(t) ==
  \/ threads'[t] # threads[t]
  \/ /\ ~running'
     /\ \A u \in BridgeThreads \ {t} : threads[u].pc # "locked"

\* C36: a forwarding call on a live instance that has no callback for it
\* (none registered, or that member null) returns 0, calls no callback and
\* leaves the process running.
C36_MissingCallbackReturnsZero ==
  [][ \A t \in BridgeThreads :
        (/\ threads[t].pc = "locked"
         /\ threads[t].op \in BridgeOps
         /\ instances[threads[t].inst].alloc = "live"
         /\ NoCallback(instances[threads[t].inst], threads[t].op)
         /\ BridgeStep(t))
        => /\ running'
           /\ threads'[t].pc = "idle"
           /\ threads'[t].ret = 0
           /\ ~threads'[t].invoked ]_bridgeVars

\* C37: no instance is freed while a thread holds its mutex inside a call;
\* destroy_instance returns 1 when the pointer names a live instance, which
\* is not live afterwards, and 0 otherwise.
C37_InstanceNotFreedInUse ==
  [][ /\ \A p \in Ptrs : instances'[p].alloc = "freed" => instances'[p].mutex = 0
      /\ \A t \in BridgeThreads :
           (threads'[t] # threads[t] /\ threads'[t].op = "destroy_instance")
           => LET p == threads'[t].inst IN
              /\ threads'[t].ret = (IF p \in g_instances THEN 1 ELSE 0)
              /\ p \in Ptrs => instances'[p].alloc # "live" ]_bridgeVars

====
